---- MODULE Spec2Model ----
(***************************************************************************)
(* Model of bot/helper/mirror_leech_utils/gdrive_utils/upload.py:          *)
(* GoogleDriveUpload.upload, _upload_dir and the retry-wrapped             *)
(* _upload_file, run for one job against a remote service whose requests   *)
(* may fail, with the cancellation flag of the owning job set at any time. *)
(***************************************************************************)
EXTENDS FiniteSets, Integers, Sequences, TLC

(* ---------------------------------------------------------------------- *)
(* Bounds of the model                                                      *)
(* ---------------------------------------------------------------------- *)
\* largest capacity of the credential pool (sa_number) a job starts with
MaxSA == 1
\* number of chunk requests a successful session of the non-empty file needs
NumChunks == 2

(* ---------------------------------------------------------------------- *)
(* Program constants                                                        *)
(* ---------------------------------------------------------------------- *)
\* stop_after_attempt(3)
MaxAttempts == 3
\* "retries < 10" of the chunk loop
MaxChunkRetries == 10
\* err.resp.status in [500, 502, 503, 504, 429]
RetryableStatus == {500, 502, 503, 504, 429}
\* reason not in ["userRateLimitExceeded", "dailyLimitExceeded"]
QuotaReasons == {"userRateLimitExceeded", "dailyLimitExceeded"}

(* ---------------------------------------------------------------------- *)
(* Text: a string is a sequence of characters                               *)
(* ---------------------------------------------------------------------- *)
None == <<>>

\* str.lower() on the alphabet of the model
LowerChar(c) == IF c = "Z" THEN "z" ELSE IF c = "D" THEN "d"
                ELSE IF c = "S" THEN "s" ELSE IF c = "N" THEN "n" ELSE c

Lower(s) == [i \in 1..Len(s) |-> LowerChar(s[i])]

\* str.endswith(suffix)
EndsWith(s, suf) ==
    /\ Len(suf) <= Len(s)
    /\ SubSeq(s, Len(s) - Len(suf) + 1, Len(s)) = suf

\* str.startswith(prefix)
StartsWith(s, pre) ==
    /\ Len(pre) <= Len(s)
    /\ SubSeq(s, 1, Len(pre)) = pre

\* str.endswith(tuple(filter))
EndsWithAny(s, sufs) == \E suf \in sufs : EndsWith(s, suf)

\* ospath.join(input_directory, item)
Join(dir, item) == dir \o <<"/">> \o item

\* index of the last "/" of s, 0 when there is none
RECURSIVE LastSlash(_, _)
LastSlash(s, i) ==
    IF i = 0 THEN 0 ELSE IF s[i] = "/" THEN i ELSE LastSlash(s, i - 1)

\* current_file_name.split("/")[-1], ospath.basename
Basename(s) == SubSeq(s, LastSlash(s, Len(s)) + 1, Len(s))

\* str(err).replace(">", "").replace("<", "")
Sanitise(s) == SelectSeq(s, LAMBDA c : c \notin {"<", ">"})

(* ---------------------------------------------------------------------- *)
(* The local file system the job runs on                                    *)
(* ---------------------------------------------------------------------- *)
FileA == <<"a">>             \* a file of NumChunks chunks
FileE == <<"e">>             \* a zero-length file
FileB == <<"b", ".", "Z">>   \* a file whose name ends in an excluded suffix
DirD  == <<"D">>             \* a directory: a file, a sub-directory, a file
DirS  == <<"S">>             \* the sub-directory of D: one zero-length file
DirN  == <<"N">>             \* an empty directory

\* listener.extension_filter
ExtensionFilter == {<<".", "z">>}

\* os.listdir
ListDir(p) ==
    IF p = DirD THEN <<FileA, DirS, FileB>>
    ELSE IF p = Join(DirD, DirS) THEN <<FileE>>
    ELSE <<>>

\* ospath.isdir
IsDir(p) == Basename(p) \in {DirD, DirS, DirN}

\* the chunks of a file: ospath.getsize(file_path) in units of the chunk size
SizeOf(p) == IF Basename(p) = FileE THEN 0 ELSE NumChunks

Targets == {FileA, FileE, FileB, DirD, DirN}

\* every regular file below a target
AllFiles == {FileA, FileE, FileB,
             Join(DirD, FileA), Join(DirD, FileB), Join(Join(DirD, DirS), FileE)}

(* ---------------------------------------------------------------------- *)
(* Exceptions: <<type, detail>>; a RetryError wraps its last attempt        *)
(* ---------------------------------------------------------------------- *)
HttpError(reason) == <<"HttpError", reason>>
OSError == <<"OSError", "No such file">>
FilterError == <<"Exception", "This file extension is excluded by extension filter!">>
CancelledError == <<"Exception", "Upload has been manually cancelled">>

\* tenacity.RetryError(last_attempt)
RetryError(e) == <<"RetryError">> \o e

\* isinstance(err, RetryError)
IsRetryError(e) == Len(e) > 0 /\ e[1] = "RetryError"

\* err.last_attempt.exception()
LastAttemptException(e) == Tail(e)

\* str(err)
Str(e) ==
    IF IsRetryError(e)
      THEN <<"RetryError[", "<", "Future", "raised", e[2], ">", "]">>
    ELSE IF e[1] = "HttpError"
      THEN <<"<", "HttpError", e[2], ">">>
    ELSE <<e[2]>>

(* ---------------------------------------------------------------------- *)
(* Remote identifiers and links                                             *)
(* ---------------------------------------------------------------------- *)
\* the id the service gives the folder made by create_directory(name, parent)
NewFolderId(name, parent) == parent \o <<"/">> \o name

\* the id the service gives an uploaded file
FileId(file_name) == <<"file:">> \o file_name

\* G_DRIVE_BASE_DOWNLOAD_URL.format(id), G_DRIVE_DIR_BASE_DOWNLOAD_URL.format(id)
FileLink(id) == <<"https://drive/uc?id=">> \o id
DirLink(id) == <<"https://drive/folders/">> \o id

\* new_id = "filter"
FilterMarker == <<"filter">>

\* listener.up_dest as the job is given it: a prefix and the destination id
Root == <<"r">>
Prefixes == {<<"m", "t", "p", ":">>, <<"t", "p", ":">>, <<"s", "a", ":">>, <<>>}

\* up_dest.replace(prefix, "", 1) of a string that starts with prefix
StripPrefix(s, pre) == SubSeq(s, Len(pre) + 1, Len(s))

(* ---------------------------------------------------------------------- *)
(* State                                                                    *)
(* ---------------------------------------------------------------------- *)
VARIABLES
    path,            \* self._path
    up_dest,         \* listener.up_dest
    unwanted_files,  \* argument of upload()
    ft_delete,       \* argument of upload()
    seed,            \* listener.seed
    new_dir,         \* listener.new_dir
    is_team_drive,   \* Config.IS_TEAM_DRIVE
    is_cancelled,    \* listener.is_cancelled, set by the owning job
    use_sa,          \* self.use_sa
    sa_number,       \* self.sa_number: capacity of the credential pool
    sa_count,        \* self.sa_count: identity switches used
    sa_index,        \* self.sa_index: the identity requests are made under
    is_errored,      \* self._is_errored
    updater,         \* self._updater: "none", "running", "cancelled"
    total_files,     \* self.total_files
    total_folders,   \* self.total_folders
    mime_type,       \* local of upload()
    dir_id,          \* local of upload()
    link,            \* local of upload()
    err,             \* the exception upload() caught
    fs,              \* the local files that exist
    pc,              \* position of upload() / _upload_dir
    walk,            \* stack of _upload_dir frames
    cur,             \* arguments of the running _upload_file, the attempts made
                     \* for it, and whether it met the exhausted pool
    calls,           \* stack of retry-wrapped _upload_file invocations
    ret,             \* value returned to upload() / _upload_dir
    h                \* history of the run (observations, not program state)

inputs == <<path, unwanted_files, ft_delete, seed, new_dir, is_team_drive, sa_number>>
creds == <<use_sa, sa_count, sa_index>>
counters == <<total_files, total_folders>>
locals == <<mime_type, dir_id, link, err>>
vars == <<inputs, up_dest, is_cancelled, creds, is_errored, updater, counters,
          locals, fs, pc, walk, cur, calls, ret, h>>

NoCall == [file_path |-> None, file_name |-> None, dest_id |-> None, in_dir |-> FALSE,
           attempts |-> 0, exhausted |-> FALSE]

InitHistory ==
    [log |-> <<>>,               \* terminal events in the order they happen
     errmsg |-> None,            \* argument of listener.on_upload_error
     cb_cancelled |-> FALSE,     \* a terminal callback was called with the flag set
     escaped |-> FALSE,          \* an exception left upload()
     root_cause |-> None,        \* the exception the last attempt raised by itself
     exhausted |-> FALSE,        \* the retry policy gave up on a file
     fault_at |-> None,          \* file in progress when the caught exception rose
     fault_cancelled |-> FALSE,  \* the flag was set when the step that failed began
     transferred |-> {},         \* files a transfer request was issued for
     finalized |-> {},           \* files the service finalized
     counted |-> {},             \* files total_files was incremented for
     uploaded_ok |-> {},         \* files whose transfer ended in success
     skipped |-> {},             \* excluded files the walker met
     removed |-> {},             \* local files removed
     rm_attempts |-> [f \in AllFiles |-> 0],  \* calls of remove() per file
     walked |-> {},              \* sub-directories whose walk ran to its end
     folders_counted |-> {},     \* sub-directories total_folders was incremented for
     cancel_at_decision |-> FALSE, \* the flag as the finally block read it
     switch_ok |-> TRUE,         \* every switch: quota reason, pooled, flag unset
     stopped |-> FALSE,          \* the walker read the flag as set after an entry
     deletes |-> 0]              \* delete requests for the top-level folder

Init ==
    /\ path \in Targets
    /\ up_dest \in {pre \o Root : pre \in Prefixes}
    /\ unwanted_files \in {{}, {Join(Join(DirD, DirS), FileE)}}
    /\ ft_delete \in {{}, {FileA, Join(DirD, FileA), Join(DirD, FileB)}}
    /\ seed \in BOOLEAN
    /\ new_dir \in BOOLEAN
    /\ is_team_drive \in BOOLEAN
    /\ is_cancelled = FALSE
    /\ use_sa \in BOOLEAN
    /\ sa_number = MaxSA
    /\ sa_count = 0
    /\ sa_index = 0
    /\ is_errored = FALSE
    /\ updater = "none"
    /\ total_files = 0
    /\ total_folders = 0
    /\ mime_type = None
    /\ dir_id = None
    /\ link = None
    /\ err = None
    /\ fs = AllFiles
    /\ pc = "start"
    /\ walk = <<>>
    /\ cur = NoCall
    /\ calls = <<>>
    /\ ret = None
    /\ h = InitHistory

(* ---------------------------------------------------------------------- *)
(* The owning job                                                           *)
(* ---------------------------------------------------------------------- *)
\* the job sets its cancellation flag, at any moment while upload() runs
Cancel ==
    /\ pc \notin {"start", "done"}
    /\ ~is_cancelled
    /\ is_cancelled' = TRUE
    /\ UNCHANGED <<inputs, up_dest, creds, is_errored, updater, counters,
                   locals, fs, pc, walk, cur, calls, ret, h>>

(* ---------------------------------------------------------------------- *)
(* upload(): the orchestrator                                               *)
(* ---------------------------------------------------------------------- *)
\* use_sa after user_setting(), from the prefix of up_dest
UserSettingUseSa(dest, old) ==
    IF StartsWith(dest, <<"m", "t", "p", ":">>) THEN FALSE
    ELSE IF StartsWith(dest, <<"t", "p", ":">>) THEN FALSE
    ELSE IF StartsWith(dest, <<"s", "a", ":">>) THEN TRUE
    ELSE old

\* up_dest after user_setting()
UserSettingDest(dest) ==
    IF StartsWith(dest, <<"m", "t", "p", ":">>) THEN StripPrefix(dest, <<"m", "t", "p", ":">>)
    ELSE IF StartsWith(dest, <<"t", "p", ":">>) THEN StripPrefix(dest, <<"t", "p", ":">>)
    ELSE IF StartsWith(dest, <<"s", "a", ":">>) THEN StripPrefix(dest, <<"s", "a", ":">>)
    ELSE dest

\* a fresh invocation of the retry-wrapped _upload_file, or a fresh attempt
NewFrame(n) == [attempt |-> n, pos |-> "begin", offset |-> 0, retries |-> 0,
                sid |-> 0, val |-> None, fc |-> FALSE]

\* a fresh _upload_dir frame
NewWalk(dir, dest) == [dir |-> dir, dest |-> dest, i |-> 1, new_id |-> None,
                       broke |-> FALSE]

\* the single-file target matches the extension filter
TargetFiltered(p) == EndsWithAny(Lower(p), ExtensionFilter)

\* upload() up to the try block: user_setting, authorize, SetInterval
Start ==
    /\ pc = "start"
    /\ use_sa' = UserSettingUseSa(up_dest, use_sa)
    /\ up_dest' = UserSettingDest(up_dest)
    /\ updater' = "running"
    /\ pc' = "dispatch"
    /\ UNCHANGED <<inputs, is_cancelled, sa_count, sa_index, is_errored, counters,
                   locals, fs, walk, cur, calls, ret, h>>

\* the try block for a file target, up to the call of _upload_file
DispatchFile ==
    /\ pc = "dispatch"
    /\ ~IsDir(path)
    /\ IF TargetFiltered(path)
         THEN /\ err' = FilterError
              /\ pc' = "except"
              /\ h' = [h EXCEPT !.fault_at = path, !.fault_cancelled = is_cancelled]
              /\ UNCHANGED <<mime_type, cur, calls>>
         ELSE /\ mime_type' = <<"mime">>
              /\ cur' = [file_path |-> path, file_name |-> Basename(path),
                         dest_id |-> up_dest, in_dir |-> FALSE, attempts |-> 0,
                         exhausted |-> FALSE]
              /\ calls' = <<NewFrame(1)>>
              /\ pc' = "file"
              /\ UNCHANGED <<err, h>>
    /\ UNCHANGED <<inputs, up_dest, is_cancelled, creds, is_errored, updater, counters,
                   dir_id, link, fs, walk, ret>>

\* the try block for a directory target: create_directory, call of _upload_dir
DispatchDir ==
    /\ pc = "dispatch"
    /\ IsDir(path)
    /\ mime_type' = <<"Folder">>
    /\ \E ok \in BOOLEAN :
         IF ok
           THEN /\ dir_id' = NewFolderId(Basename(path), up_dest)
                /\ walk' = <<NewWalk(path, dir_id')>>
                /\ pc' = "walk"
                /\ UNCHANGED <<err, h>>
           ELSE /\ err' = HttpError("backendError")
                /\ pc' = "except"
                /\ h' = [h EXCEPT !.fault_at = path, !.fault_cancelled = is_cancelled]
                /\ UNCHANGED <<dir_id, walk>>
    /\ UNCHANGED <<inputs, up_dest, is_cancelled, creds, is_errored, updater, counters,
                   link, fs, cur, calls, ret>>

\* lines 67-71: after _upload_file returned to upload()
FileRet ==
    /\ pc = "file_ret"
    /\ link' = ret
    /\ IF is_cancelled
         THEN pc' = "finally" /\ UNCHANGED err
         ELSE IF ret = None
           THEN pc' = "except" /\ err' = CancelledError
           ELSE pc' = "finally" /\ UNCHANGED err
    /\ UNCHANGED <<inputs, up_dest, is_cancelled, creds, is_errored, updater, counters,
                   mime_type, dir_id, fs, walk, cur, calls, ret, h>>

\* lines 84-89: after _upload_dir returned to upload()
DirRet ==
    /\ pc = "dir_ret"
    /\ IF ret = None
         THEN pc' = "except" /\ err' = CancelledError /\ UNCHANGED link
         ELSE pc' = "finally" /\ link' = DirLink(dir_id) /\ UNCHANGED err
    /\ UNCHANGED <<inputs, up_dest, is_cancelled, creds, is_errored, updater, counters,
                   mime_type, dir_id, fs, walk, cur, calls, ret, h>>

\* the message upload() passes to listener.on_upload_error
ErrorMessage(e) ==
    Sanitise(Str(IF IsRetryError(e) THEN LastAttemptException(e) ELSE e))

\* lines 90-96: the except block
Except ==
    /\ pc = "except"
    /\ h' = [h EXCEPT !.log = Append(@, "on_upload_error"),
                      !.errmsg = ErrorMessage(err),
                      !.cb_cancelled = @ \/ is_cancelled]
    /\ is_errored' = TRUE
    /\ pc' = "finally"
    /\ UNCHANGED <<inputs, up_dest, is_cancelled, creds, updater, counters,
                   locals, fs, walk, cur, calls, ret>>

\* a finally block that forgets the rollback of a cancelled directory upload
FinallyBranchNoRollback(cancelled, errored, mime) ==
    IF cancelled /\ ~errored THEN "done"
    ELSE IF errored THEN "done"
    ELSE "complete"

\* a finally block that reports completion whenever the job was not cancelled
FinallyBranchCompleteAfterError(cancelled, errored, mime) ==
    IF cancelled /\ ~errored
      THEN IF mime = <<"Folder">> THEN "rollback" ELSE "done"
    ELSE IF cancelled THEN "done"
    ELSE "complete"

\* lines 99-116: what the finally block does after stopping the updater
FinallyBranch(cancelled, errored, mime) ==
    IF cancelled /\ ~errored
      THEN IF mime = <<"Folder">> THEN "rollback" ELSE "done"
    ELSE IF errored THEN "done"
    ELSE "complete"

\* lines 98-99, 107: the finally block stops the updater and reads the outcome
Finally ==
    /\ pc = "finally"
    /\ updater' = "cancelled"
    /\ h' = [h EXCEPT !.log = Append(@, "updater_cancel"),
                      !.cancel_at_decision = is_cancelled]
    /\ pc' = FinallyBranch(is_cancelled, is_errored, mime_type)
    /\ UNCHANGED <<inputs, up_dest, is_cancelled, creds, is_errored, counters,
                   locals, fs, walk, cur, calls, ret>>

\* lines 101-106: the delete request for the top-level folder; it may fail
Rollback ==
    /\ pc = "rollback"
    /\ \E ok \in BOOLEAN :
         h' = [h EXCEPT !.log = Append(@, "delete_folder"),
                        !.deletes = @ + 1,
                        !.escaped = ~ok]
    /\ pc' = "done"
    /\ UNCHANGED <<inputs, up_dest, is_cancelled, creds, is_errored, updater, counters,
                   locals, fs, walk, cur, calls, ret>>

\* lines 109-116: listener.on_upload_complete
Complete ==
    /\ pc = "complete"
    /\ h' = [h EXCEPT !.log = Append(@, "on_upload_complete"),
                      !.cb_cancelled = @ \/ is_cancelled]
    /\ pc' = "done"
    /\ UNCHANGED <<inputs, up_dest, is_cancelled, creds, is_errored, updater, counters,
                   locals, fs, walk, cur, calls, ret>>

(* ---------------------------------------------------------------------- *)
(* _upload_dir: the directory walker                                        *)
(* ---------------------------------------------------------------------- *)
TopWalk == walk[Len(walk)]
Entries == ListDir(TopWalk.dir)
Item == Entries[TopWalk.i]
CurrentFileName == Join(TopWalk.dir, Item)

\* lines 135-138: the walker does not transfer this entry
Excluded(current_file_name, item) ==
    \/ current_file_name \in unwanted_files
    \/ EndsWithAny(Lower(item), ExtensionFilter)

\* line 152: the walker removes the local copy of an excluded file
ExcludedRemove(file_path) == ~seed \/ new_dir

\* a walker that does not read the flag after an entry
AfterEntryNoBreak(w, id) == [w EXCEPT !.new_id = id, !.i = w.i + 1, !.broke = FALSE]

\* lines 155-156 after an entry gave new_id: next entry, or break on the flag
AfterEntry(w, id) ==
    [w EXCEPT !.new_id = id,
              !.i = IF is_cancelled THEN Len(ListDir(w.dir)) + 1 ELSE w.i + 1,
              !.broke = is_cancelled /\ w.i < Len(ListDir(w.dir))]

AtEntry == pc = "walk" /\ walk # <<>> /\ TopWalk.i <= Len(Entries)

\* lines 125-132: a sub-directory: create the remote folder and descend
WalkSubDir ==
    /\ AtEntry
    /\ IsDir(CurrentFileName)
    /\ \E ok \in BOOLEAN :
         IF ok
           THEN /\ walk' = Append(walk, NewWalk(CurrentFileName,
                                               NewFolderId(Item, TopWalk.dest)))
                /\ UNCHANGED <<pc, err, h>>
           ELSE /\ err' = HttpError("backendError")
                /\ pc' = "except"
                /\ walk' = <<>>
                /\ h' = [h EXCEPT !.fault_at = CurrentFileName,
                                  !.fault_cancelled = is_cancelled]
    /\ UNCHANGED <<inputs, up_dest, is_cancelled, creds, is_errored, updater, counters,
                   mime_type, dir_id, link, fs, cur, calls, ret>>

\* lines 134-148: a file that is not excluded: call _upload_file
WalkFile ==
    /\ AtEntry
    /\ ~IsDir(CurrentFileName)
    /\ ~Excluded(CurrentFileName, Item)
    /\ cur' = [file_path |-> CurrentFileName, file_name |-> Basename(CurrentFileName),
               dest_id |-> TopWalk.dest, in_dir |-> TRUE, attempts |-> 0,
               exhausted |-> FALSE]
    /\ calls' = <<NewFrame(1)>>
    /\ pc' = "walk_file"
    /\ UNCHANGED <<inputs, up_dest, is_cancelled, creds, is_errored, updater, counters,
                   locals, fs, walk, ret, h>>

\* lines 149-150, 155-156: _upload_file returned to the walker
WalkFileRet ==
    /\ pc = "walk_file_ret"
    /\ total_files' = total_files + 1
    /\ walk' = [walk EXCEPT ![Len(walk)] = AfterEntry(@, @.dest)]
    /\ h' = [h EXCEPT !.counted = @ \cup {CurrentFileName},
                      !.stopped = @ \/ is_cancelled]
    /\ pc' = "walk"
    /\ UNCHANGED <<inputs, up_dest, is_cancelled, creds, is_errored, updater,
                   total_folders, locals, fs, cur, calls, ret>>

\* lines 151-156: an excluded file: remove the local copy if the flags say so
WalkExcluded ==
    /\ AtEntry
    /\ ~IsDir(CurrentFileName)
    /\ Excluded(CurrentFileName, Item)
    /\ IF ExcludedRemove(CurrentFileName)
         THEN \E ok \in BOOLEAN :
                IF ok
                  THEN /\ fs' = fs \ {CurrentFileName}
                       /\ walk' = [walk EXCEPT ![Len(walk)] = AfterEntry(@, FilterMarker)]
                       /\ h' = [h EXCEPT !.skipped = @ \cup {CurrentFileName},
                                         !.removed = @ \cup {CurrentFileName},
                                         !.rm_attempts[CurrentFileName] = @ + 1,
                                         !.stopped = @ \/ is_cancelled]
                       /\ UNCHANGED <<pc, err>>
                  ELSE /\ err' = OSError
                       /\ pc' = "except"
                       /\ walk' = <<>>
                       /\ h' = [h EXCEPT !.skipped = @ \cup {CurrentFileName},
                                         !.rm_attempts[CurrentFileName] = @ + 1,
                                         !.fault_at = CurrentFileName,
                                         !.fault_cancelled = is_cancelled]
                       /\ UNCHANGED fs
         ELSE /\ walk' = [walk EXCEPT ![Len(walk)] = AfterEntry(@, FilterMarker)]
              /\ h' = [h EXCEPT !.skipped = @ \cup {CurrentFileName},
                                !.stopped = @ \/ is_cancelled]
              /\ UNCHANGED <<pc, err, fs>>
    /\ UNCHANGED <<inputs, up_dest, is_cancelled, creds, is_errored, updater, counters,
                   mime_type, dir_id, link, cur, calls, ret>>

\* lines 120-121, 157: the value _upload_dir returns
WalkResult(w) == IF Len(ListDir(w.dir)) = 0 THEN w.dest ELSE w.new_id

\* lines 157, 133, 155-156: _upload_dir returns, to upload() or to the walk above
WalkReturn ==
    /\ pc = "walk"
    /\ walk # <<>>
    /\ TopWalk.i > Len(Entries)
    /\ IF Len(walk) = 1
         THEN /\ ret' = WalkResult(TopWalk)
              /\ walk' = <<>>
              /\ pc' = "dir_ret"
              /\ UNCHANGED <<total_folders, h>>
         ELSE /\ total_folders' = total_folders + 1
              /\ walk' = [SubSeq(walk, 1, Len(walk) - 1) EXCEPT
                            ![Len(walk) - 1] = AfterEntry(@, WalkResult(TopWalk))]
              /\ h' = [h EXCEPT !.folders_counted = @ \cup {TopWalk.dir},
                                !.walked = IF TopWalk.broke THEN @ ELSE @ \cup {TopWalk.dir},
                                !.stopped = @ \/ is_cancelled]
              /\ UNCHANGED <<pc, ret>>
    /\ UNCHANGED <<inputs, up_dest, is_cancelled, creds, is_errored, updater,
                   total_files, locals, fs, cur, calls>>

(* ---------------------------------------------------------------------- *)
(* _upload_file: one attempt (lines 164-274) under the retry policy         *)
(* ---------------------------------------------------------------------- *)
Top == calls[Len(calls)]
At(pos) == calls # <<>> /\ Top.pos = pos

SetTop(f) == [calls EXCEPT ![Len(calls)] = f]

\* the attempt raises e
Raise(e) == SetTop([Top EXCEPT !.pos = "raised", !.val = e, !.fc = is_cancelled])

\* the attempt returns v
Return(v) == SetTop([Top EXCEPT !.pos = "returned", !.val = v])

Goto(pos) == SetTop([Top EXCEPT !.pos = pos])

fileFixed == <<inputs, up_dest, is_cancelled, is_errored, updater, counters,
               locals, pc, walk, ret>>

\* the answers of the service to a chunk request
Statuses == {403, 429, 500, 503}
Reasons == {"userRateLimitExceeded", "dailyLimitExceeded", "notFound"}
ChunkOk == [ok |-> TRUE, status |-> 200, json |-> TRUE, reason |-> "none"]
ChunkOutcomes ==
    {ChunkOk}
    \cup {[ok |-> FALSE, status |-> s, json |-> TRUE, reason |-> r] :
             s \in Statuses, r \in Reasons}
    \cup {[ok |-> FALSE, status |-> s, json |-> FALSE, reason |-> "none"] :
             s \in Statuses}

\* line 259: the local file is removed after its transfer
DeletePolicy(file_path) == ~seed \/ new_dir \/ file_path \in ft_delete

\* lines 174-182, 206-220: getsize, then the request or the session is prepared
FileBegin ==
    /\ At("begin")
    /\ IF cur.file_path \notin fs
         THEN calls' = Raise(OSError) /\ UNCHANGED h
         ELSE /\ calls' = IF SizeOf(cur.file_path) = 0
                            THEN Goto("create0")
                            ELSE SetTop([Top EXCEPT !.pos = "loop", !.offset = 0,
                                              !.retries = 0, !.sid = sa_count])
              /\ UNCHANGED h
    /\ cur' = [cur EXCEPT !.attempts = @ + 1]
    /\ UNCHANGED <<fileFixed, creds, fs>>

\* lines 188-196: the non-resumable create request of a zero-length file
FileCreate0 ==
    /\ At("create0")
    /\ \E ok \in BOOLEAN :
         IF ok
           THEN /\ calls' = Goto(IF is_team_drive THEN "get0" ELSE "perm0")
                /\ h' = [h EXCEPT !.transferred = @ \cup {cur.file_path},
                                  !.finalized = @ \cup {cur.file_path}]
           ELSE /\ calls' = Raise(HttpError("backendError"))
                /\ h' = [h EXCEPT !.transferred = @ \cup {cur.file_path}]
    /\ UNCHANGED <<fileFixed, cur, creds, fs>>

\* lines 197-198: set_permission for a zero-length file
FilePerm0 ==
    /\ At("perm0")
    /\ \E ok \in BOOLEAN :
         IF ok
           THEN calls' = Goto("get0") /\ UNCHANGED h
           ELSE /\ calls' = Raise(HttpError("backendError"))
                /\ UNCHANGED h
    /\ UNCHANGED <<fileFixed, cur, creds, fs>>

\* lines 200-205: the get request and the link of a zero-length file
FileGet0 ==
    /\ At("get0")
    /\ \E ok \in BOOLEAN :
         IF ok
           THEN /\ calls' = Return(FileLink(FileId(cur.file_name)))
                /\ h' = [h EXCEPT !.uploaded_ok = @ \cup {cur.file_path}]
           ELSE /\ calls' = Raise(HttpError("backendError"))
                /\ UNCHANGED h
    /\ UNCHANGED <<fileFixed, cur, creds, fs>>

\* line 221: the condition of the chunk loop
ChunkLoop ==
    /\ At("loop")
    /\ calls' = IF Top.offset < SizeOf(cur.file_path) /\ ~is_cancelled
                  THEN Goto("req")
                  ELSE Goto("after")
    /\ UNCHANGED <<fileFixed, cur, creds, fs, h>>

\* the handler of lines 224-256 without the capacity test of line 238
ChunkErrorActionNoCapacity(o, retries, pooled, used, capacity, cancelled) ==
    IF o.status \in RetryableStatus /\ retries < MaxChunkRetries THEN "retry"
    ELSE IF ~o.json THEN "ignore"
    ELSE IF o.reason \notin QuotaReasons THEN "raise"
    ELSE IF ~pooled THEN "raise"
    ELSE IF cancelled THEN "return"
    ELSE "switch"

\* the handler of lines 224-256 switching on every failure it does not retry
ChunkErrorActionAnyReason(o, retries, pooled, used, capacity, cancelled) ==
    IF o.status \in RetryableStatus /\ retries < MaxChunkRetries THEN "retry"
    ELSE IF ~o.json THEN "ignore"
    ELSE IF used >= capacity THEN "raise"
    ELSE IF cancelled THEN "return"
    ELSE "switch"

\* lines 224-256: what the handler of a failed chunk request does
ChunkErrorAction(o, retries, pooled, used, capacity, cancelled) ==
    IF o.status \in RetryableStatus /\ retries < MaxChunkRetries THEN "retry"
    ELSE IF ~o.json THEN "ignore"
    ELSE IF o.reason \notin QuotaReasons THEN "raise"
    ELSE IF ~pooled THEN "raise"
    ELSE IF used >= capacity THEN "raise"
    ELSE IF cancelled THEN "return"
    ELSE "switch"

\* switch_service_account(): one more identity of the pool is used
UsedAfterSwitch(used) == used + 1

\* switch_service_account(): the next identity of the pool
NextIdentity(index, capacity) == IF index >= capacity - 1 THEN 0 ELSE index + 1

\* a handler that goes on with the chunk loop of the old session after the switch
RestartResume(stack) == [stack EXCEPT ![Len(stack)].pos = "loop"]

\* lines 245-254: after the switch the retry-wrapped _upload_file is called anew
Restart(stack) ==
    Append([stack EXCEPT ![Len(stack)] =
                [NewFrame(stack[Len(stack)].attempt) EXCEPT !.pos = "nested"]],
           NewFrame(1))

\* lines 237-242: the handler raises the quota error because the pool is exhausted
Exhausted(o, act) == act = "raise" /\ o.json /\ o.reason \in QuotaReasons /\ use_sa

\* lines 222-256: one chunk request answered with o, and the handling of a failure
ChunkReqWith(o) ==
    /\ At("req")
    /\ LET act == ChunkErrorAction(o, Top.retries, use_sa, sa_count, sa_number,
                                   is_cancelled)
           sent == [h EXCEPT !.transferred = @ \cup {cur.file_path}]
       IN
       /\ cur' = [cur EXCEPT !.exhausted = @ \/ (~o.ok /\ Exhausted(o, act))]
       /\ IF o.ok
            THEN /\ calls' = SetTop([Top EXCEPT !.pos = "loop", !.offset = @ + 1])
                 /\ h' = IF Top.offset + 1 = SizeOf(cur.file_path)
                           THEN [sent EXCEPT !.finalized = @ \cup {cur.file_path}]
                           ELSE sent
                 /\ UNCHANGED <<sa_count, sa_index>>
            ELSE
              CASE act = "retry" ->
                     /\ calls' = SetTop([Top EXCEPT !.pos = "loop", !.retries = @ + 1])
                     /\ h' = sent
                     /\ UNCHANGED <<sa_count, sa_index>>
                [] act = "ignore" ->
                     /\ calls' = Goto("loop")
                     /\ h' = sent
                     /\ UNCHANGED <<sa_count, sa_index>>
                [] act = "raise" ->
                     /\ calls' = Raise(HttpError(o.reason))
                     /\ h' = sent
                     /\ UNCHANGED <<sa_count, sa_index>>
                [] act = "return" ->
                     /\ calls' = Return(None)
                     /\ h' = sent
                     /\ UNCHANGED <<sa_count, sa_index>>
                [] act = "switch" ->
                     /\ sa_count' = UsedAfterSwitch(sa_count)
                     /\ sa_index' = NextIdentity(sa_index, sa_number)
                     /\ calls' = Restart(calls)
                     /\ h' = [sent EXCEPT !.switch_ok =
                                 @ /\ o.reason \in QuotaReasons /\ use_sa /\ ~is_cancelled]
    /\ UNCHANGED <<fileFixed, use_sa, fs>>

\* lines 222-256: one chunk request, answered by the service as it likes
ChunkReq == \E o \in ChunkOutcomes : ChunkReqWith(o)

\* the position after the local file was dealt with (lines 262-274)
AfterRemove == IF ~is_team_drive THEN "perm" ELSE IF ~cur.in_dir THEN "get" ELSE "end"

\* lines 257-262: the flag is read; the local file is removed, failures suppressed
FileAfter ==
    /\ At("after")
    /\ IF is_cancelled
         THEN calls' = Return(None) /\ UNCHANGED <<fs, h>>
         ELSE /\ calls' = Goto(AfterRemove)
              /\ IF DeletePolicy(cur.file_path)
                   THEN \E ok \in BOOLEAN :
                          /\ fs' = IF ok THEN fs \ {cur.file_path} ELSE fs
                          /\ h' = [h EXCEPT !.rm_attempts[cur.file_path] = @ + 1,
                                            !.removed = IF ok THEN @ \cup {cur.file_path}
                                                        ELSE @]
                   ELSE UNCHANGED <<fs, h>>
    /\ UNCHANGED <<fileFixed, cur, creds>>

\* lines 264-265: set_permission
FilePerm ==
    /\ At("perm")
    /\ \E ok \in BOOLEAN :
         IF ok
           THEN calls' = Goto(IF ~cur.in_dir THEN "get" ELSE "end") /\ UNCHANGED h
           ELSE /\ calls' = Raise(HttpError("backendError"))
                /\ UNCHANGED h
    /\ UNCHANGED <<fileFixed, cur, creds, fs>>

\* lines 267-273: the get request and the link of a file that is not in a directory
FileGet ==
    /\ At("get")
    /\ \E ok \in BOOLEAN :
         IF ok
           THEN /\ calls' = Return(FileLink(FileId(cur.file_name)))
                /\ h' = [h EXCEPT !.uploaded_ok = @ \cup {cur.file_path}]
           ELSE /\ calls' = Raise(HttpError("backendError"))
                /\ UNCHANGED h
    /\ UNCHANGED <<fileFixed, cur, creds, fs>>

\* line 274: a file inside a directory returns None
FileEnd ==
    /\ At("end")
    /\ calls' = Return(None)
    /\ h' = [h EXCEPT !.uploaded_ok = @ \cup {cur.file_path}]
    /\ UNCHANGED <<fileFixed, cur, creds, fs>>

(* ---------------------------------------------------------------------- *)
(* The retry policy around _upload_file (lines 159-163)                     *)
(* ---------------------------------------------------------------------- *)
\* the exception at the bottom of a chain of RetryErrors
RECURSIVE Innermost(_)
Innermost(e) == IF IsRetryError(e) THEN Innermost(LastAttemptException(e)) ELSE e

\* stop_after_attempt(3): the policy gives up after this attempt
GiveUp(attempt) == attempt >= MaxAttempts

\* an attempt raised: a new attempt, or RetryError to the caller
RetryPolicy ==
    /\ At("raised")
    /\ IF ~GiveUp(Top.attempt)
         THEN /\ calls' = SetTop(NewFrame(Top.attempt + 1))
              /\ UNCHANGED <<pc, walk, cur, err, h>>
         ELSE IF Len(calls) > 1
           THEN /\ calls' = [SubSeq(calls, 1, Len(calls) - 1) EXCEPT
                               ![Len(calls) - 1].pos = "raised",
                               ![Len(calls) - 1].val = RetryError(Top.val),
                               ![Len(calls) - 1].fc = Top.fc]
                /\ UNCHANGED <<pc, walk, cur, err, h>>
           ELSE /\ calls' = <<>>
                /\ cur' = NoCall
                /\ walk' = <<>>
                /\ err' = RetryError(Top.val)
                /\ pc' = "except"
                /\ h' = [h EXCEPT !.exhausted = TRUE,
                                  !.fault_at = cur.file_path,
                                  !.fault_cancelled = Top.fc,
                                  !.root_cause = Innermost(Top.val)]
    /\ UNCHANGED <<inputs, up_dest, is_cancelled, creds, is_errored, updater, counters,
                   mime_type, dir_id, link, fs, ret>>

\* an attempt returned: the value goes to the caller (line 247, upload, _upload_dir)
FileReturn ==
    /\ At("returned")
    /\ IF Len(calls) > 1
         THEN /\ calls' = [SubSeq(calls, 1, Len(calls) - 1) EXCEPT
                             ![Len(calls) - 1].pos = "returned",
                             ![Len(calls) - 1].val = Top.val]
              /\ UNCHANGED <<pc, cur, ret>>
         ELSE /\ calls' = <<>>
              /\ cur' = NoCall
              /\ ret' = Top.val
              /\ pc' = IF pc = "file" THEN "file_ret" ELSE "walk_file_ret"
    /\ UNCHANGED <<inputs, up_dest, is_cancelled, creds, is_errored, updater, counters,
                   locals, fs, walk, h>>

(* ---------------------------------------------------------------------- *)
(* Specification                                                            *)
(* ---------------------------------------------------------------------- *)
Next ==
    \/ Cancel
    \/ Start
    \/ DispatchFile
    \/ DispatchDir
    \/ FileRet
    \/ DirRet
    \/ Except
    \/ Finally
    \/ Rollback
    \/ Complete
    \/ WalkSubDir
    \/ WalkFile
    \/ WalkFileRet
    \/ WalkExcluded
    \/ WalkReturn
    \/ FileBegin
    \/ FileCreate0
    \/ FilePerm0
    \/ FileGet0
    \/ ChunkLoop
    \/ ChunkReq
    \/ FileAfter
    \/ FilePerm
    \/ FileGet
    \/ FileEnd
    \/ RetryPolicy
    \/ FileReturn

Spec == Init /\ [][Next]_vars

\* a Drive service that answers every chunk request with an error
ChunkReqFail == \E o \in ChunkOutcomes \ {ChunkOk} : ChunkReqWith(o)

\* upload() of the file a
InitFailing == Init /\ path = FileA

\* upload() of one file against the failing service, the flag never set
NextFailing ==
    \/ Start
    \/ DispatchFile
    \/ FileBegin
    \/ ChunkLoop
    \/ ChunkReqFail
    \/ RetryPolicy
    \/ Except
    \/ Finally

\* the interpreter keeps running upload() while it has a step to take
SpecFailing == InitFailing /\ [][NextFailing]_vars /\ WF_vars(NextFailing)

(* ---------------------------------------------------------------------- *)
(* Properties of upload()                                                   *)
(* ---------------------------------------------------------------------- *)
Terminal == {"on_upload_error", "on_upload_complete"}
Called(ev) == \E i \in 1..Len(h.log) : h.log[i] = ev
MatchesFilter(file_path) == EndsWithAny(Lower(Basename(file_path)), ExtensionFilter)

\* C1: every terminal callback of the job (on_upload_error, on_upload_complete)
\* comes after the progress task was cancelled
C1_UpdaterStoppedBeforeTerminal ==
    \A i \in 1..Len(h.log) :
        h.log[i] \in Terminal => \E j \in 1..(i - 1) : h.log[j] = "updater_cancel"

\* C2: once the cancellation flag is set no terminal callback follows: no error
\* is reported for a step that failed with the flag set, and no completion is
\* reported when the finally block read the flag as set
C2_CancellationNeverReported ==
    /\ Called("on_upload_error") => ~h.fault_cancelled
    /\ Called("on_upload_complete") => ~h.cancel_at_decision

\* C3: a directory upload that ends with the flag set (as the finally block
\* read it) and no error recorded issued exactly one delete request for the
\* top-level folder and never called on_upload_complete
C3_CancelledDirectoryRollsBack ==
    (pc = "done" /\ IsDir(path) /\ h.cancel_at_decision /\ ~is_errored)
        => (h.deletes = 1 /\ ~Called("on_upload_complete"))

\* C3 witness: the flag was set after the first of the three entries of D; the
\* job ended with the one file counted, the folder deleted, nothing reported
C3_Witness ==
    /\ pc = "done"
    /\ path = DirD
    /\ h.cancel_at_decision
    /\ ~is_errored
    /\ total_files = 1
    /\ total_folders = 0
    /\ h.skipped = {}
    /\ h.deletes = 1
    /\ h.log = <<"updater_cancel", "delete_folder">>

\* C4: no exception leaves upload()
C4_NeverPropagates == ~h.escaped

\* C5: when the retry policy gave up, the message given to on_upload_error is
\* the sanitised text of the exception the last attempt raised by itself, not
\* the text of a RetryError
C5_MessageIsLastAttemptsError ==
    (h.exhausted /\ Called("on_upload_error"))
        => /\ h.errmsg = Sanitise(Str(h.root_cause))
           /\ h.errmsg[1] # "RetryError["

\* C6: a file matching the extension filter is not transferred and is never the
\* cause of an error of the job
C6_FilteredFileIsNoError ==
    /\ \A f \in h.transferred : ~MatchesFilter(f)
    /\ (is_errored \/ Called("on_upload_error"))
           => ~(h.fault_at # None /\ MatchesFilter(h.fault_at))

\* C7: total_files counts only files the service finalized, total_folders only
\* sub-directories whose walk ran to its end
C7_CountersCountSuccesses ==
    /\ h.counted \subseteq h.finalized
    /\ total_files <= Cardinality(h.finalized)
    /\ h.folders_counted \subseteq h.walked
    /\ total_folders <= Cardinality(h.walked)

\* C8: a job that reports an error for a transferred file has not removed it
C8_ErroredFileNotRemoved ==
    (is_errored /\ h.fault_at \in h.transferred) => h.fault_at \notin h.removed

\* C9: after a successful transfer the removal of the local file was attempted
\* exactly once if (not seed) or new_dir or the path is in ft_delete, else never
C9_RemovalFollowsPolicy ==
    \A f \in h.uploaded_ok :
        h.rm_attempts[f] = IF ~seed \/ new_dir \/ f \in ft_delete THEN 1 ELSE 0

\* C10: a file the walker excluded is not transferred, not counted, and its
\* removal was attempted exactly when seed, new_dir and ft_delete allow it
C10_ExcludedFollowsDeletionPolicy ==
    \A f \in h.skipped :
        /\ f \notin h.transferred
        /\ f \notin h.counted
        /\ (h.rm_attempts[f] = 1) <=> (~seed \/ new_dir \/ f \in ft_delete)

\* the retry policy is about to hand the failure of the file to the orchestrator
GivingUp == At("raised") /\ Len(calls) = 1 /\ GiveUp(Top.attempt)

\* C11: in pooled mode, once a chunk request failed with a quota reason while
\* sa_count >= sa_number, the upload of that file does not end in success, and
\* the failure handed to upload() is that quota error itself
C11_ExhaustionIsFatal ==
    cur.exhausted =>
        /\ cur.file_path \notin h.uploaded_ok
        /\ GivingUp => (Top.val[1] = "HttpError" /\ Top.val[2] \in QuotaReasons)

\* C12: one file is attempted at most 3 times, whatever fails, and exactly 3
\* times when its failure reaches the orchestrator
C12_AtMostThreeAttempts ==
    /\ cur.attempts <= MaxAttempts
    /\ GivingUp => cur.attempts = MaxAttempts

\* C13: sa_count <= sa_number in every reachable state; the identity changes
\* only in a step that starts with sa_count < sa_number and uses one more
\* identity, so at most sa_number switches happen in the job; and a quota error
\* the handler meets with the pool used up is raised, with no switch
C13_UsedWithinCapacity ==
    /\ [](sa_count <= sa_number)
    /\ [][(sa_count' # sa_count \/ sa_index' # sa_index) =>
            (sa_count < sa_number /\ sa_count' = sa_count + 1)]_vars
    /\ [][(cur'.exhausted /\ ~cur.exhausted) =>
            /\ sa_count' = sa_count /\ sa_index' = sa_index
            /\ Len(calls') = Len(calls)
            /\ calls'[Len(calls')].pos = "raised"
            /\ calls'[Len(calls')].val[2] \in QuotaReasons]_vars

\* the pool is used up (one switch was made) and the next quota error is raised
C13_Witness ==
    /\ sa_number > 0 /\ sa_count = sa_number
    /\ cur.exhausted /\ At("raised") /\ Top.val[2] \in QuotaReasons

\* a step that switches the identity
Switches == sa_count' # sa_count \/ sa_index' # sa_index

\* C14: the identity is switched only by the handler of a failed chunk request,
\* for reason userRateLimitExceeded or dailyLimitExceeded, with use_sa true and
\* the cancellation flag not set; use_sa is false after user_setting() for the
\* prefixes mtp: and tp: and does not change afterwards
C14_SwitchOnlyOnQuotaInPooledMode ==
    /\ [](h.switch_ok)
    /\ [][Switches => (At("req") /\ use_sa /\ use_sa' /\ ~is_cancelled)]_vars
    /\ [][(pc = "start" /\ (\/ StartsWith(up_dest, <<"m", "t", "p", ":">>)
                            \/ StartsWith(up_dest, <<"t", "p", ":">>)))
            => ~use_sa']_vars
    /\ [][pc # "start" => use_sa' = use_sa]_vars

\* the upload restarts after a switch made in pooled mode
C14_Witness ==
    /\ use_sa /\ sa_count > 0 /\ h.switch_ok
    /\ Len(calls) = 2 /\ At("begin") /\ Top.attempt = 1

\* C15: a chunk request after which the same session goes on with the chunk
\* loop either succeeded (the offset advanced) or was retried in place (the
\* retry counter advanced); every other failure leaves the loop
C15_OtherFailureEscalates ==
    [][(/\ At("req")
        /\ Len(calls') = Len(calls)
        /\ calls'[Len(calls')].pos = "loop")
       => (\/ calls'[Len(calls')].offset = Top.offset + 1
           \/ calls'[Len(calls')].retries = Top.retries + 1)]_vars

\* a resumable session is in its chunk loop
InChunkLoop == calls # <<>> /\ Top.pos \in {"loop", "req"}

\* C16: no session retries more than 10 failed chunk requests in place, and
\* against a service that fails every chunk request, with the flag never set,
\* every session leaves its chunk loop
C16_ChunkLoopTerminates ==
    /\ [](\A i \in 1..Len(calls) : calls[i].retries <= MaxChunkRetries)
    /\ (InChunkLoop ~> ~InChunkLoop)

\* C17: a session in its chunk loop was opened under the identity in use now
\* and belongs to the innermost call; every call below it waits for the call it
\* made after a switch; an attempt begins with offset 0 and retry counter 0
C17_RestartFromBeginning ==
    /\ \A i \in 1..Len(calls) :
          /\ calls[i].pos \in {"loop", "req"} =>
                (i = Len(calls) /\ calls[i].sid = sa_count)
          /\ i < Len(calls) => calls[i].pos = "nested"
    /\ At("begin") => (Top.offset = 0 /\ Top.retries = 0)

\* after a switch, the restarted upload has sent its first chunk under the new
\* identity
C17_Witness ==
    /\ Len(calls) = 2 /\ At("req")
    /\ sa_count = 1 /\ Top.sid = 1 /\ Top.offset = 1 /\ Top.retries = 0

\* C18: once the walker read the flag as set after an entry, no entry of any
\* directory of the walk is begun, no file is counted, transferred, skipped or
\* removed, no walk is entered, and total_folders changes only as an enclosing
\* walk is left
C18_WalkerStopsOnFlag ==
    /\ [](h.stopped => ~AtEntry)
    /\ [][h.stopped =>
            /\ total_files' = total_files
            /\ fs' = fs
            /\ h'.transferred = h.transferred
            /\ h'.skipped = h.skipped
            /\ Len(walk') <= Len(walk)
            /\ (total_folders' # total_folders => Len(walk') = Len(walk) - 1)]_vars

\* the walker of D broke after the first of its three entries
C18_Witness ==
    /\ pc = "walk" /\ Len(walk) = 1 /\ TopWalk.dir = DirD
    /\ h.stopped /\ TopWalk.broke
    /\ total_files = 1 /\ total_folders = 0 /\ h.skipped = {}

\* an entry of the walked directory completed: a file was uploaded, an excluded
\* file was skipped, or the walk of a sub-directory ran to its end
EntryCompleted == h.uploaded_ok # {} \/ h.skipped # {} \/ h.walked # {}

\* C19: _upload_dir returns the remote parent it was given for an empty
\* directory, null when it read the flag as set and no entry completed, and a
\* value that is not null when an entry completed
C19_WalkerResult ==
    pc = "dir_ret" =>
        /\ ListDir(path) = <<>> => ret = dir_id
        /\ (h.stopped /\ ~EntryCompleted) => ret = None
        /\ EntryCompleted => ret # None

\* number of calls of the callback ev
Calls(ev) == Cardinality({i \in 1..Len(h.log) : h.log[i] = ev})

\* C20: upload() calls at most one terminal callback, and at most once;
\* on_upload_complete is not called in a job marked errored; a job that ends
\* with neither the flag set nor the error mark called on_upload_complete once
C20_AtMostOneTerminalCallback ==
    /\ Calls("on_upload_error") + Calls("on_upload_complete") <= 1
    /\ is_errored => Calls("on_upload_complete") = 0
    /\ (pc = "done" /\ ~is_cancelled /\ ~is_errored)
          => Calls("on_upload_complete") = 1

\* a job that ended with neither the flag nor the error mark reported completion
C20_Witness ==
    /\ pc = "done" /\ ~is_cancelled /\ ~is_errored
    /\ h.log = <<"updater_cancel", "on_upload_complete">>

====
